---- MODULE Spec2Model ----
(***************************************************************************)
(* A model of l5kit's EgoDataset (l5kit/dataset/ego.py): the flat frame    *)
(* index of a scene/frame/agent/traffic-light-face store, the lookup of a  *)
(* frame, and the extraction of one scene into a dataset of its own.       *)
(*                                                                         *)
(* Arrays live in a heap of buffers.  A dataset holds views (buffer,       *)
(* offset, length) on them, as numpy arrays do: a slice is a view on the   *)
(* same buffer, .copy() allocates a new buffer, and an in-place operation  *)
(* writes the buffer the view is on.  Workers call the dataset's methods;  *)
(* get_scene_dataset runs statement by statement, so that the calls of two *)
(* workers interleave.                                                     *)
(***************************************************************************)
EXTENDS Integers, Sequences, FiniteSets, TLC

VARIABLES heap,   \* buffer id -> the sequence of records the buffer holds
          root,   \* the dataset built by the constructor over the loaded store
          procs,  \* the workers that call the dataset
          pc,     \* worker -> "idle" or the line of get_scene_dataset it is at
          loc,    \* worker -> the locals of its get_scene_dataset call
          last,   \* worker -> its last completed call, what it returned, and the
                  \* extracted dataset the worker holds
          writes  \* the number of writes the callers made to extracted stores

vars == <<heap, root, procs, pc, loc, last, writes>>

-----------------------------------------------------------------------------
(* Bounds of the model. *)

MaxScenes == 3        \* scenes of a store
MaxFrames == 4        \* frames of a store
MaxWrites == 1        \* writes the callers make to extracted stores
MaxSceneFrames == 2   \* frames of the scene whose intervals are arbitrary
MaxAgents == 3        \* agents of the store whose intervals are arbitrary
MaxRoute == 3         \* frames of the scene whose ego positions vary

Workers == {"w1", "w2"}

-----------------------------------------------------------------------------
(* numpy arrays: views on heap buffers. *)

NoView == [buf |-> 0, lo |-> 0, n |-> 0]

\* the records a view shows
Read(h, v) == [i \in 1..v.n |-> h[v.buf][v.lo + i]]

\* a[i] for one integer i: the 1-based position, negative i counting from the end
PyInRange(i, n) == (0 - n) <= i /\ i < n
PyPos(i, n) == IF i < 0 THEN i + n + 1 ELSE i + 1

\* the bound of a slice a[lo:hi]: negative counts from the end, then clamped
PyClamp(i, n) ==
    LET j == IF i < 0 THEN i + n ELSE i
    IN  IF j < 0 THEN 0 ELSE IF j > n THEN n ELSE j

\* a[lo:hi] of a view: a view on the same buffer
SliceView(v, lo, hi) ==
    LET a == PyClamp(lo, v.n)
        b == PyClamp(hi, v.n)
    IN  [buf |-> v.buf, lo |-> v.lo + a, n |-> IF b > a THEN b - a ELSE 0]

\* a[lo:hi] of a sequence of records
SliceSeq(s, lo, hi) ==
    LET a == PyClamp(lo, Len(s))
        b == PyClamp(hi, Len(s))
    IN  IF b > a THEN SubSeq(s, a + 1, b) ELSE <<>>

\* the buffer ids a worker's allocations take: every worker has its own, past
\* the four buffers of the loaded store
BufIds(w, h) ==
    {b \in 5..(2 * Cardinality(DOMAIN h) + 6) : (b % 2 = 1) <=> (w = "w1")}

\* the smallest buffer id of the worker that is not in use
FreshBuf(w, h) ==
    CHOOSE b \in BufIds(w, h) \ DOMAIN h :
        \A c \in BufIds(w, h) \ DOMAIN h : b <= c

\* an in-place operation on a view: the buffer with the shown records replaced
WriteView(h, v, recs) ==
    [h EXCEPT ![v.buf] =
        [i \in 1..Len(h[v.buf]) |->
            IF v.lo < i /\ i <= v.lo + v.n THEN recs[i - v.lo] ELSE h[v.buf][i]]]

-----------------------------------------------------------------------------
(* The dataset. *)

\* cfg.get(key, default)
CfgGet(cfg, key, default) == IF key \in DOMAIN cfg THEN cfg[key] ELSE default

\* EgoDataset(cfg, zarr_dataset, ...): the dataset holds its configuration and
\* the arrays of its store
EgoDataset(cfg, scenes, frames, agents, tl_faces) ==
    [cfg |-> cfg, scenes |-> scenes, frames |-> frames,
     agents |-> agents, tl_faces |-> tl_faces]

\* what a dataset shows through its views: its configuration and its records
Load(h, d) ==
    [cfg |-> d.cfg, scenes |-> Read(h, d.scenes), frames |-> Read(h, d.frames),
     agents |-> Read(h, d.agents), tl_faces |-> Read(h, d.tl_faces)]

\* self.cumulative_sizes: the end of every scene's frame interval
cumulative_sizes(s) ==
    [i \in 1..Len(s.scenes) |-> s.scenes[i].frame_index_interval[2]]

\* len(self)
dataset_len(s) == Len(s.frames)

-----------------------------------------------------------------------------
(* __getitem__: from a flat index to a scene and a frame of it. *)

RECURSIVE bisect_loop(_, _, _, _)
\* the loop of bisect.bisect_right: a is searched between lo and hi (0-based)
bisect_loop(a, x, lo, hi) ==
    IF lo < hi
    THEN LET mid == (lo + hi) \div 2
         IN  IF x < a[mid + 1]
             THEN bisect_loop(a, x, lo, mid)
             ELSE bisect_loop(a, x, mid + 1, hi)
    ELSE lo

\* a bisection that puts x before the entries equal to it
bisect_before_equal(a, x) == bisect_loop(a, x - 1, 0, Len(a))

\* bisect.bisect_right(a, x)
bisect_right(a, x) == bisect_loop(a, x, 0, Len(a))

\* a bound check that refuses the index -n too
wrap_index_refusing_first(n, index) ==
    IF index < 0
    THEN IF (0 - index) >= n THEN <<>> ELSE <<n + index>>
    ELSE <<index>>

\* an index past the end taken for the last one
wrap_index_clamping(n, index) ==
    IF index < 0
    THEN IF (0 - index) > n THEN <<>> ELSE <<n + index>>
    ELSE IF index >= n /\ n > 0 THEN <<n - 1>> ELSE <<index>>

\* the negative index of __getitem__: <<>> when it raises ValueError, else <<index>>
wrap_index(n, index) ==
    IF index < 0
    THEN IF (0 - index) > n THEN <<>> ELSE <<n + index>>
    ELSE <<index>>

\* the scene and the frame of it __getitem__ hands to get_frame
resolve(cum, index) ==
    LET scene_index == bisect_right(cum, index)
        state_index == IF scene_index = 0
                       THEN index
                       ELSE index - cum[scene_index]
    IN  <<scene_index, state_index>>

-----------------------------------------------------------------------------
(* get_frame. *)

\* what generate_agent_sample returns for a frame window and a frame of it:
\* the frames it rasterises with the agents and traffic light faces their
\* intervals select, and the targets: the ego positions of the frames after
\* state_index, under an image-to-world transform that is the identity
generate_agent_sample(state_index, frames, agents, tl_faces, track_id) ==
    [image |->
        [state_index |-> state_index,
         frames |->
            [i \in 1..Len(frames) |->
                [timestamp |-> frames[i].timestamp,
                 agents |-> SliceSeq(agents, frames[i].agent_index_interval[1],
                                     frames[i].agent_index_interval[2]),
                 tl_faces |-> SliceSeq(tl_faces,
                                 frames[i].traffic_light_faces_index_interval[1],
                                 frames[i].traffic_light_faces_index_interval[2])]]],
     target_positions |->
        [t \in 1..(Len(frames) - state_index - 1) |->
            frames[state_index + 1 + t].ego_translation],
     target_availabilities |->
        [t \in 1..(Len(frames) - state_index - 1) |-> 1],
     world_to_image |-> "identity",
     ego_center |-> frames[state_index + 1].ego_translation]

\* np.inverse(...): numpy has no attribute of that name
np_inverse(m) == "AttributeError"

\* the Frenet branch of get_frame: its first statement raises
frenet_status(data) == np_inverse(data.world_to_image)

\* np.int64(-1 if track_id is None else track_id)
track_number(track_id) == IF track_id = <<>> THEN 0 - 1 ELSE track_id[1]

\* get_frame(scene_index, state_index, track_id): the error it raises, or the
\* sample it returns
get_frame(s, scene_index, state_index, track_id) ==
    LET scenes == s.scenes
        frames_all == s.frames
    IN  IF ~PyInRange(scene_index, Len(scenes))
        THEN [status |-> "IndexError", value |-> <<>>]
        ELSE
        LET frame_interval == scenes[PyPos(scene_index, Len(scenes))].frame_index_interval
            frames == SliceSeq(frames_all, frame_interval[1], frame_interval[2])
            data == generate_agent_sample(state_index, frames, s.agents,
                                          s.tl_faces, track_id)
            at == frame_interval[1] + state_index
        IN  IF CfgGet(s.cfg, "use_frenet", TRUE)
            THEN [status |-> frenet_status(data), value |-> <<>>]
            ELSE IF ~PyInRange(at, Len(frames_all))
            THEN [status |-> "IndexError", value |-> <<>>]
            ELSE [status |-> "ok",
                  value |-> <<[image |-> data.image,
                               target_positions |-> data.target_positions,
                               target_availabilities |-> data.target_availabilities,
                               world_to_image |-> data.world_to_image,
                               track_id |-> track_number(track_id),
                               timestamp |->
                                  frames_all[PyPos(at, Len(frames_all))].timestamp]>>]

\* __getitem__(index): the scene and frame it resolved, and what get_frame gave
getitem(s, index) ==
    LET w == wrap_index(dataset_len(s), index)
    IN  IF w = <<>>
        THEN [status |-> "ValueError", resolved |-> <<>>, value |-> <<>>]
        ELSE LET r == resolve(cumulative_sizes(s), w[1])
                 got == get_frame(s, r[1], r[2], <<>>)
             IN  [status |-> got.status, resolved |-> r, value |-> got.value]

-----------------------------------------------------------------------------
(* The index lookups. *)

\* a range that takes its end in
arange_with_end(lo, hi) == [i \in 1..(hi - lo + 1) |-> lo + i - 1]

\* np.arange(lo, hi)
arange(lo, hi) == [i \in 1..(hi - lo) |-> lo + i - 1]

\* get_scene_indices(scene_idx)
get_scene_indices(s, scene_idx) ==
    LET scenes == s.scenes
    IN  IF ~(scene_idx < Len(scenes))
        THEN [status |-> "AssertionError", value |-> <<>>]
        ELSE IF ~PyInRange(scene_idx, Len(scenes))
        THEN [status |-> "IndexError", value |-> <<>>]
        ELSE LET fi == scenes[PyPos(scene_idx, Len(scenes))].frame_index_interval
             IN  [status |-> "ok", value |-> <<arange(fi[1], fi[2])>>]

\* get_frame_indices(frame_idx)
get_frame_indices(s, frame_idx) ==
    IF ~(frame_idx < dataset_len(s))
    THEN [status |-> "AssertionError", value |-> <<>>]
    ELSE [status |-> "ok", value |-> <<(<<frame_idx>>)>>]

-----------------------------------------------------------------------------
(* get_scene_dataset, statement by statement. *)

\* a[lo:hi] without .copy(): the view on the buffer of the source
np_slice_only(w, h, v) == [heap |-> h, view |-> v]

\* a[lo:hi].copy(): the heap with a new buffer that holds what the view shows,
\* and the view on the new buffer
np_copy(w, h, v) ==
    [heap |-> (FreshBuf(w, h) :> Read(h, v)) @@ h,
     view |-> [buf |-> FreshBuf(w, h), lo |-> 0, n |-> v.n]]

\* the agent intervals left as they were in the source
rebase_agents_skipped(frames, start) == frames

\* frames["agent_index_interval"] -= agents_start_index
rebase_agents(frames, start) ==
    [i \in 1..Len(frames) |->
        [frames[i] EXCEPT !.agent_index_interval =
            <<frames[i].agent_index_interval[1] - start,
              frames[i].agent_index_interval[2] - start>>]]

\* only the start of every traffic light face interval moved
rebase_tl_faces_start_only(frames, start) ==
    [i \in 1..Len(frames) |->
        [frames[i] EXCEPT !.traffic_light_faces_index_interval =
            <<frames[i].traffic_light_faces_index_interval[1] - start,
              frames[i].traffic_light_faces_index_interval[2]>>]]

\* frames["traffic_light_faces_index_interval"] -= tl_start_index
rebase_tl_faces(frames, start) ==
    [i \in 1..Len(frames) |->
        [frames[i] EXCEPT !.traffic_light_faces_index_interval =
            <<frames[i].traffic_light_faces_index_interval[1] - start,
              frames[i].traffic_light_faces_index_interval[2] - start>>]]

\* the scene's frame interval left as it was in the source
rebase_scenes_skipped(scenes, start) == scenes

\* scenes["frame_index_interval"] -= frame_interval[0]
rebase_scenes(scenes, start) ==
    [i \in 1..Len(scenes) |->
        [scenes[i] EXCEPT !.frame_index_interval =
            <<scenes[i].frame_index_interval[1] - start,
              scenes[i].frame_index_interval[2] - start>>]]

NoDataset == EgoDataset(<<>>, NoView, NoView, NoView, NoView)

NoStore == [cfg |-> <<>>, scenes |-> <<>>, frames |-> <<>>,
            agents |-> <<>>, tl_faces |-> <<>>]

NoLoc ==
    [self |-> NoDataset, scene_index |-> 0, scenes |-> NoView, frames |-> NoView,
     agents |-> NoView, tl_faces |-> NoView,
     agents_start_index |-> 0, tl_start_index |-> 0]

\* the record of a completed call: the store it was called on, its arguments,
\* the error it raised or "ok", the scene and frame __getitem__ resolved, the
\* value returned, and in held the extracted dataset the worker holds
Done(op, s, args, status, resolved, value, held) ==
    [op |-> op, self |-> s, args |-> args, status |-> status,
     resolved |-> resolved, value |-> value, held |-> held]

NoCall == Done("none", NoStore, <<>>, "ok", <<>>, <<>>, <<>>)

\* the buffers a dataset's arrays are on
BufsOf(d) == {d.scenes.buf, d.frames.buf, d.agents.buf, d.tl_faces.buf} \ {0}

\* the buffers still referenced: by the root dataset, by the datasets the
\* workers hold, and by the locals of the calls in progress
Referenced(ls, lc) ==
    BufsOf(root)
    \cup UNION {BufsOf(ls[w].held[1]) : w \in {v \in procs : ls[v].held # <<>>}}
    \cup UNION {BufsOf(lc[w].self) : w \in procs}
    \cup UNION {{lc[w].scenes.buf, lc[w].frames.buf,
                 lc[w].agents.buf, lc[w].tl_faces.buf} \ {0} : w \in procs}

\* the heap without the buffers nothing references any more
Collect(h, ls, lc) == [b \in (DOMAIN h) \cap Referenced(ls, lc) |-> h[b]]

\* the dataset a worker calls: the extracted one it holds, else the root one
Visible(w) == IF last[w].held # <<>> THEN {last[w].held[1]} ELSE {root}

\* the extracted dataset a call on d leaves the worker holding
Held(d) == IF d = root THEN <<>> ELSE <<d>>

\* get_scene_dataset(scene_index) is called on d
call_get_scene_dataset(w, d, scene_index) ==
    /\ pc[w] = "idle"
    /\ last[w].op = "none"
    /\ pc' = [pc EXCEPT ![w] = "L168"]
    /\ loc' = [loc EXCEPT ![w] = [NoLoc EXCEPT !.self = d,
                                               !.scene_index = scene_index]]
    /\ last' = [last EXCEPT ![w] = NoCall]
    /\ UNCHANGED <<heap, root, procs, writes>>

\* the call raises: its locals are dropped
raise_in_get_scene_dataset(w, status) ==
    /\ pc' = [pc EXCEPT ![w] = "idle"]
    /\ loc' = [loc EXCEPT ![w] = NoLoc]
    /\ last' = [last EXCEPT ![w] =
                   Done("get_scene_dataset", Load(heap, loc[w].self),
                        <<loc[w].scene_index>>, status, <<>>, <<>>,
                        Held(loc[w].self))]
    /\ heap' = Collect(heap, last', loc')
    /\ UNCHANGED <<root, procs, writes>>

\* scenes = self.dataset.scenes[scene_index : scene_index + 1].copy()
L168(w) ==
    /\ pc[w] = "L168"
    /\ LET k == loc[w].scene_index
           c == np_copy(w, heap, SliceView(loc[w].self.scenes, k, k + 1))
       IN  /\ heap' = c.heap
           /\ loc' = [loc EXCEPT ![w].scenes = c.view]
    /\ pc' = [pc EXCEPT ![w] = "L170"]
    /\ UNCHANGED <<root, procs, last, writes>>

\* frame_interval = scenes[0]["frame_index_interval"]
\* frames = self.dataset.frames[frame_interval[0] : frame_interval[1]].copy()
L170(w) ==
    /\ pc[w] = "L170"
    /\ LET scenes == Read(heap, loc[w].scenes)
       IN  IF Len(scenes) = 0
           THEN raise_in_get_scene_dataset(w, "IndexError")
           ELSE LET fi == scenes[1].frame_index_interval
                    c == np_copy(w, heap,
                                 SliceView(loc[w].self.frames, fi[1], fi[2]))
                IN  /\ heap' = c.heap
                    /\ loc' = [loc EXCEPT ![w].frames = c.view]
                    /\ pc' = [pc EXCEPT ![w] = "L174"]
                    /\ UNCHANGED <<root, procs, last, writes>>

\* agents_start_index = frames[0]["agent_index_interval"][0]
\* agents_end_index = frames[-1]["agent_index_interval"][1]
\* agents = self.dataset.agents[agents_start_index:agents_end_index].copy()
L174(w) ==
    /\ pc[w] = "L174"
    /\ LET frames == Read(heap, loc[w].frames)
       IN  IF Len(frames) = 0
           THEN raise_in_get_scene_dataset(w, "IndexError")
           ELSE LET agents_start_index == frames[1].agent_index_interval[1]
                    agents_end_index == frames[Len(frames)].agent_index_interval[2]
                    c == np_copy(w, heap,
                                 SliceView(loc[w].self.agents,
                                           agents_start_index, agents_end_index))
                IN  /\ heap' = c.heap
                    /\ loc' = [loc EXCEPT ![w].agents = c.view,
                                          ![w].agents_start_index = agents_start_index]
                    /\ pc' = [pc EXCEPT ![w] = "L178"]
                    /\ UNCHANGED <<root, procs, last, writes>>

\* tl_start_index = frames[0]["traffic_light_faces_index_interval"][0]
\* tl_end_index = frames[-1]["traffic_light_faces_index_interval"][1]
\* tl_faces = self.dataset.tl_faces[tl_start_index:tl_end_index].copy()
L178(w) ==
    /\ pc[w] = "L178"
    /\ LET frames == Read(heap, loc[w].frames)
           tl_start_index == frames[1].traffic_light_faces_index_interval[1]
           tl_end_index == frames[Len(frames)].traffic_light_faces_index_interval[2]
           c == np_copy(w, heap,
                        SliceView(loc[w].self.tl_faces, tl_start_index, tl_end_index))
       IN  /\ heap' = c.heap
           /\ loc' = [loc EXCEPT ![w].tl_faces = c.view,
                                 ![w].tl_start_index = tl_start_index]
    /\ pc' = [pc EXCEPT ![w] = "L180"]
    /\ UNCHANGED <<root, procs, last, writes>>

\* frames["agent_index_interval"] -= agents_start_index
L180(w) ==
    /\ pc[w] = "L180"
    /\ heap' = WriteView(heap, loc[w].frames,
                         rebase_agents(Read(heap, loc[w].frames),
                                       loc[w].agents_start_index))
    /\ pc' = [pc EXCEPT ![w] = "L181"]
    /\ UNCHANGED <<root, procs, loc, last, writes>>

\* frames["traffic_light_faces_index_interval"] -= tl_start_index
L181(w) ==
    /\ pc[w] = "L181"
    /\ heap' = WriteView(heap, loc[w].frames,
                         rebase_tl_faces(Read(heap, loc[w].frames),
                                         loc[w].tl_start_index))
    /\ pc' = [pc EXCEPT ![w] = "L182"]
    /\ UNCHANGED <<root, procs, loc, last, writes>>

\* scenes["frame_index_interval"] -= frame_interval[0]
L182(w) ==
    /\ pc[w] = "L182"
    /\ LET scenes == Read(heap, loc[w].scenes)
       IN  heap' = WriteView(heap, loc[w].scenes,
                             rebase_scenes(scenes, scenes[1].frame_index_interval[1]))
    /\ pc' = [pc EXCEPT ![w] = "L190"]
    /\ UNCHANGED <<root, procs, loc, last, writes>>

\* dataset = ChunkedDataset(""); ...; return EgoDataset(self.cfg, dataset, ...)
L190(w) ==
    /\ pc[w] = "L190"
    /\ LET d == EgoDataset(loc[w].self.cfg, loc[w].scenes, loc[w].frames,
                           loc[w].agents, loc[w].tl_faces)
       IN  last' = [last EXCEPT ![w] =
                       Done("get_scene_dataset", Load(heap, loc[w].self),
                            <<loc[w].scene_index>>, "ok", <<>>,
                            <<Load(heap, d)>>, <<d>>)]
    /\ loc' = [loc EXCEPT ![w] = NoLoc]
    /\ pc' = [pc EXCEPT ![w] = "idle"]
    /\ heap' = Collect(heap, last', loc')
    /\ UNCHANGED <<root, procs, writes>>

-----------------------------------------------------------------------------
(* The calls that read. *)

\* len(d)
call_len(w, d) ==
    /\ pc[w] = "idle"
    /\ last[w].op = "none"
    /\ last' = [last EXCEPT ![w] =
                   Done("len", Load(heap, d), <<>>, "ok", <<>>,
                        <<dataset_len(Load(heap, d))>>, Held(d))]
    /\ UNCHANGED <<heap, root, procs, pc, loc, writes>>

\* d[index]
call_getitem(w, d, index) ==
    /\ pc[w] = "idle"
    /\ last[w].op = "none"
    /\ LET got == getitem(Load(heap, d), index)
       IN  last' = [last EXCEPT ![w] =
                       Done("getitem", Load(heap, d), <<index>>, got.status,
                            got.resolved, got.value, Held(d))]
    /\ UNCHANGED <<heap, root, procs, pc, loc, writes>>

\* a get_frame that makes the agent intervals of the frames start at 0, in
\* the array it reads them from
call_get_frame_rebasing(w, d, scene_index, state_index, track_id) ==
    /\ pc[w] = "idle"
    /\ last[w].op = "none"
    /\ LET got == get_frame(Load(heap, d), scene_index, state_index, track_id)
       IN  last' = [last EXCEPT ![w] =
                       Done("get_frame", Load(heap, d),
                            <<scene_index, state_index, track_number(track_id)>>,
                            got.status, <<>>, got.value, Held(d))]
    /\ heap' = WriteView(heap, d.frames,
                         [i \in 1..d.frames.n |->
                             LET f == Read(heap, d.frames)[i]
                             IN  [f EXCEPT !.agent_index_interval =
                                     <<0, f.agent_index_interval[2]
                                            - f.agent_index_interval[1]>>]])
    /\ UNCHANGED <<root, procs, pc, loc, writes>>

\* d.get_frame(scene_index, state_index, track_id)
call_get_frame(w, d, scene_index, state_index, track_id) ==
    /\ pc[w] = "idle"
    /\ last[w].op = "none"
    /\ LET got == get_frame(Load(heap, d), scene_index, state_index, track_id)
       IN  last' = [last EXCEPT ![w] =
                       Done("get_frame", Load(heap, d),
                            <<scene_index, state_index, track_number(track_id)>>,
                            got.status, <<>>, got.value, Held(d))]
    /\ UNCHANGED <<heap, root, procs, pc, loc, writes>>

\* d.get_scene_indices(scene_idx)
call_get_scene_indices(w, d, scene_idx) ==
    /\ pc[w] = "idle"
    /\ last[w].op = "none"
    /\ LET got == get_scene_indices(Load(heap, d), scene_idx)
       IN  last' = [last EXCEPT ![w] =
                       Done("get_scene_indices", Load(heap, d), <<scene_idx>>,
                            got.status, <<>>, got.value, Held(d))]
    /\ UNCHANGED <<heap, root, procs, pc, loc, writes>>

\* d.get_frame_indices(frame_idx)
call_get_frame_indices(w, d, frame_idx) ==
    /\ pc[w] = "idle"
    /\ last[w].op = "none"
    /\ LET got == get_frame_indices(Load(heap, d), frame_idx)
       IN  last' = [last EXCEPT ![w] =
                       Done("get_frame_indices", Load(heap, d), <<frame_idx>>,
                            got.status, <<>>, got.value, Held(d))]
    /\ UNCHANGED <<heap, root, procs, pc, loc, writes>>

-----------------------------------------------------------------------------
(* What the caller of get_scene_dataset does with the dataset it got: "the  *)
(* underlying data can be modified", and the dataset can be let go.         *)

\* what a caller writes over the records
WrittenValues == {0}

\* the heap after an array of dataset d is overwritten in place: the
\* timestamps of its frames, its agents or its traffic light faces
overwrite(h, d, array, val) ==
    LET view == IF array = "frames" THEN d.frames
                ELSE IF array = "agents" THEN d.agents ELSE d.tl_faces
        recs == Read(h, view)
    IN  WriteView(h, view,
                  [i \in 1..view.n |->
                      IF array = "frames"
                      THEN [recs[i] EXCEPT !.timestamp = val]
                      ELSE val])

\* the records of an array of dataset d
array_len(d, array) ==
    IF array = "frames" THEN d.frames.n
    ELSE IF array = "agents" THEN d.agents.n ELSE d.tl_faces.n

\* the caller overwrites an array of the extracted store it holds
write_array(w, array, val) ==
    /\ pc[w] = "idle"
    /\ last[w].op = "none"
    /\ writes < MaxWrites
    /\ last[w].held # <<>>
    /\ array_len(last[w].held[1], array) > 0
    /\ heap' = overwrite(heap, last[w].held[1], array, val)
    /\ writes' = writes + 1
    /\ UNCHANGED <<root, procs, pc, loc, last>>

\* the caller has used what its call returned, and goes on to its next call
discard_result(w) ==
    /\ pc[w] = "idle"
    /\ last[w].op # "none"
    /\ last' = [last EXCEPT ![w] = [NoCall EXCEPT !.held = last[w].held]]
    /\ UNCHANGED <<heap, root, procs, pc, loc, writes>>

\* the caller lets go of the extracted dataset it holds
drop_dataset(w) ==
    /\ pc[w] = "idle"
    /\ last[w].op = "none"
    /\ last[w].held # <<>>
    /\ last' = [last EXCEPT ![w] = NoCall]
    /\ heap' = Collect(heap, last', loc)
    /\ UNCHANGED <<root, procs, pc, loc, writes>>

-----------------------------------------------------------------------------
(* The states after construction. *)

Scene(lo, hi) == [frame_index_interval |-> <<lo, hi>>]

Frame(ts, agent_interval, tl_interval, ego) ==
    [timestamp |-> ts, agent_index_interval |-> agent_interval,
     traffic_light_faces_index_interval |-> tl_interval, ego_translation |-> ego]

\* the scenes whose frame intervals end at cum[1], cum[2], ...: they follow
\* one another from frame 0 on
ScenesOf(cum) ==
    [i \in 1..Len(cum) |-> Scene(IF i = 1 THEN 0 ELSE cum[i - 1], cum[i])]

\* the non-decreasing sequences of n numbers of 0..top
NonDecreasing(n, top) ==
    {c \in [1..n -> 0..top] : \A i \in 1..(n - 1) : c[i] <= c[i + 1]}

Ids(n) == [i \in 1..n |-> i]

\* EgoDataset.__init__ over a loaded store, and the workers that will call it
Constructed(cfg, scenes, frames, agents, tl_faces, workers) ==
    /\ heap = (1 :> scenes) @@ (2 :> frames) @@ (3 :> agents) @@ (4 :> tl_faces)
    /\ root = EgoDataset(cfg,
                         [buf |-> 1, lo |-> 0, n |-> Len(scenes)],
                         [buf |-> 2, lo |-> 0, n |-> Len(frames)],
                         [buf |-> 3, lo |-> 0, n |-> Len(agents)],
                         [buf |-> 4, lo |-> 0, n |-> Len(tl_faces)])
    /\ procs = workers
    /\ pc = [w \in Workers |-> "idle"]
    /\ loc = [w \in Workers |-> NoLoc]
    /\ last = [w \in Workers |-> NoCall]
    /\ writes = 0

\* stores of up to MaxScenes scenes (empty ones too) over up to MaxFrames
\* frames, every frame with one agent of its own and no traffic light face
Init ==
    \E n \in 0..MaxScenes : \E cum \in NonDecreasing(n, MaxFrames) :
    \E cfg \in {<<>>, [use_frenet |-> FALSE]} :
        LET nf == IF n = 0 THEN 0 ELSE cum[n]
        IN  Constructed(cfg, ScenesOf(cum),
                        [i \in 1..nf |-> Frame(i, <<i - 1, i>>, <<0, 0>>, <<0, 0>>)],
                        Ids(nf), <<>>, {"w1"})

-----------------------------------------------------------------------------
(* The calls the workers make. *)

\* the frames of scene k of d that a caller can ask for
OffsetsOf(s, k) ==
    IF PyInRange(k, Len(s.scenes))
    THEN LET fi == s.scenes[PyPos(k, Len(s.scenes))].frame_index_interval
         IN  0..(fi[2] - fi[1] - 1)
    ELSE {0}

\* the calls of worker w on the dataset it sees, their arguments taken among
\* args and from one before the first to one past the last, their track ids
\* among tracks
some_len(w) == \E d \in Visible(w) : call_len(w, d)

some_getitem(w, args) ==
    \E d \in Visible(w) :
        \E index \in args \cap ((0 - d.frames.n - 1)..(d.frames.n + 1)) :
            call_getitem(w, d, index)

some_get_frame(w, args, tracks) ==
    \E d \in Visible(w) : \E k \in args \cap ((0 - 1)..d.scenes.n) :
        \E j \in OffsetsOf(Load(heap, d), k) : \E t \in tracks :
            call_get_frame(w, d, k, j, t)

some_get_scene_indices(w, args) ==
    \E d \in Visible(w) : \E k \in args \cap ((0 - 1)..(d.scenes.n + 1)) :
        call_get_scene_indices(w, d, k)

some_get_frame_indices(w, args) ==
    \E d \in Visible(w) : \E f \in args \cap ((0 - 1)..(d.frames.n + 1)) :
        call_get_frame_indices(w, d, f)

some_get_scene_dataset(w, args) ==
    \E d \in Visible(w) : \E k \in args \cap ((0 - 1)..d.scenes.n) :
        call_get_scene_dataset(w, d, k)

some_write(w) ==
    \E array \in {"frames", "agents", "tl_faces"} : \E val \in WrittenValues :
        write_array(w, array, val)

\* every call, with any argument and with or without a track id
Next ==
    \/ \E w \in procs : some_len(w)
    \/ \E w \in procs : some_getitem(w, Int)
    \/ \E w \in procs : some_get_frame(w, Int, {<<>>, <<1>>})
    \/ \E w \in procs : some_get_scene_indices(w, Int)
    \/ \E w \in procs : some_get_frame_indices(w, Int)
    \/ \E w \in procs : some_get_scene_dataset(w, Int)
    \/ \E w \in procs : L168(w)
    \/ \E w \in procs : L170(w)
    \/ \E w \in procs : L174(w)
    \/ \E w \in procs : L178(w)
    \/ \E w \in procs : L180(w)
    \/ \E w \in procs : L181(w)
    \/ \E w \in procs : L182(w)
    \/ \E w \in procs : L190(w)
    \/ \E w \in procs : some_write(w)
    \/ \E w \in procs : discard_result(w)
    \/ \E w \in procs : drop_dataset(w)

Spec == Init /\ [][Next]_vars

-----------------------------------------------------------------------------
(* Stores whose agent and traffic light face intervals are arbitrary. *)

\* the intervals <<a, b>> with 0 <= a <= b <= n
Intervals(n) == {<<a, b>> : a \in 0..n, b \in 0..n} \cap {iv \in (0..n) \X (0..n) : iv[1] <= iv[2]}

\* a scene of one frame, then a scene of up to MaxSceneFrames frames: each of
\* its frames takes any interval of the agents, and the interval one further of
\* the traffic light faces
InitExtract ==
    \E m \in 0..MaxSceneFrames : \E iv \in [1..m -> Intervals(MaxAgents)] :
        Constructed([use_frenet |-> FALSE],
                    <<Scene(0, 1), Scene(1, 1 + m)>>,
                    [i \in 1..(1 + m) |->
                        IF i = 1
                        THEN Frame(1, <<0, 0>>, <<0, 1>>, <<0, 0>>)
                        ELSE Frame(i, iv[i - 1],
                                   <<iv[i - 1][1] + 1, iv[i - 1][2] + 1>>, <<0, 0>>)],
                    Ids(MaxAgents), Ids(MaxAgents + 1), {"w1"})

\* every call, with any argument and without a track id; the caller leaves
\* what it extracts as it is
NextExtract ==
    \/ \E w \in procs : some_len(w)
    \/ \E w \in procs : some_getitem(w, Int)
    \/ \E w \in procs : some_get_frame(w, Int, {<<>>})
    \/ \E w \in procs : some_get_scene_indices(w, Int)
    \/ \E w \in procs : some_get_frame_indices(w, Int)
    \/ \E w \in procs : some_get_scene_dataset(w, Int)
    \/ \E w \in procs : L168(w)
    \/ \E w \in procs : L170(w)
    \/ \E w \in procs : L174(w)
    \/ \E w \in procs : L178(w)
    \/ \E w \in procs : L180(w)
    \/ \E w \in procs : L181(w)
    \/ \E w \in procs : L182(w)
    \/ \E w \in procs : L190(w)
    \/ \E w \in procs : discard_result(w)
    \/ \E w \in procs : drop_dataset(w)

SpecExtract == InitExtract /\ [][NextExtract]_vars

-----------------------------------------------------------------------------
(* Two workers on one store. *)

\* two scenes of one frame, the first with an agent and two traffic light
\* faces, the second with an agent and a traffic light face
WorkersStore ==
    [cfg |-> [use_frenet |-> FALSE],
     scenes |-> <<Scene(0, 1), Scene(1, 2)>>,
     frames |-> <<Frame(1, <<0, 1>>, <<0, 2>>, <<0, 0>>),
                  Frame(2, <<1, 2>>, <<2, 3>>, <<0, 0>>)>>,
     agents |-> Ids(2),
     tl_faces |-> Ids(3)]

InitWorkers ==
    Constructed(WorkersStore.cfg, WorkersStore.scenes, WorkersStore.frames,
                WorkersStore.agents, WorkersStore.tl_faces, Workers)

\* the workers call with the arguments 0 and 1 and no track id
NextWorkers ==
    \/ \E w \in procs : some_len(w)
    \/ \E w \in procs : some_getitem(w, {0, 1})
    \/ \E w \in procs : some_get_frame(w, {0, 1}, {<<>>})
    \/ \E w \in procs : some_get_scene_indices(w, {0, 1})
    \/ \E w \in procs : some_get_frame_indices(w, {0, 1})
    \/ \E w \in procs : some_get_scene_dataset(w, {0, 1})
    \/ \E w \in procs : L168(w)
    \/ \E w \in procs : L170(w)
    \/ \E w \in procs : L174(w)
    \/ \E w \in procs : L178(w)
    \/ \E w \in procs : L180(w)
    \/ \E w \in procs : L181(w)
    \/ \E w \in procs : L182(w)
    \/ \E w \in procs : L190(w)
    \/ \E w \in procs : some_write(w)
    \/ \E w \in procs : discard_result(w)
    \/ \E w \in procs : drop_dataset(w)

SpecWorkers == InitWorkers /\ [][NextWorkers]_vars

-----------------------------------------------------------------------------
(* A scene along a route: the ego position of every frame varies. *)

\* the configurations: use_frenet unset, set, cleared
Cfgs == {<<>>, [use_frenet |-> TRUE], [use_frenet |-> FALSE]}

\* one scene of up to MaxRoute frames, the ego at any of four positions in each
InitRoute ==
    \E n \in 1..MaxRoute : \E ego \in [1..n -> (0..1) \X (0..1)] : \E cfg \in Cfgs :
        Constructed(cfg, <<Scene(0, n)>>,
                    [i \in 1..n |-> Frame(i, <<i - 1, i>>, <<0, 0>>, ego[i])],
                    Ids(n), <<>>, {"w1"})

SpecRoute == InitRoute /\ [][Next]_vars

-----------------------------------------------------------------------------
(* The vocabulary of the properties. *)

\* the flat index at which scene k (0-based) starts, by the cumulative index
StartOf(cum, k) == IF k = 0 THEN 0 ELSE cum[k]

\* the frames of scene k (0-based) of a store
SceneFrames(s, k) ==
    SliceSeq(s.frames, s.scenes[k + 1].frame_index_interval[1],
             s.scenes[k + 1].frame_index_interval[2])

\* the agents and the traffic light faces a frame of a store refers to
AgentsOf(s, f) ==
    SliceSeq(s.agents, f.agent_index_interval[1], f.agent_index_interval[2])
FacesOf(s, f) ==
    SliceSeq(s.tl_faces, f.traffic_light_faces_index_interval[1],
             f.traffic_light_faces_index_interval[2])

\* the contiguity get_scene_dataset assumes of scene k: every frame's agent
\* interval starts where the one before ends, and so for the traffic light faces
Contiguous(s, k) ==
    LET fs == SceneFrames(s, k)
    IN  \A i \in 1..(Len(fs) - 1) :
            /\ fs[i].agent_index_interval[2] = fs[i + 1].agent_index_interval[1]
            /\ fs[i].traffic_light_faces_index_interval[2]
                  = fs[i + 1].traffic_light_faces_index_interval[1]

\* a gap in scene k: a frame's interval starts past the end of the one before
HasGap(s, k) ==
    LET fs == SceneFrames(s, k)
    IN  \E i \in 1..(Len(fs) - 1) :
            \/ fs[i].agent_index_interval[2] < fs[i + 1].agent_index_interval[1]
            \/ fs[i].traffic_light_faces_index_interval[2]
                  < fs[i + 1].traffic_light_faces_index_interval[1]

\* every frame's intervals of scene k lie between the start of the first
\* frame's and the end of the last frame's
Within(s, k) ==
    LET fs == SceneFrames(s, k)
    IN  \A i \in 1..Len(fs) :
            /\ fs[1].agent_index_interval[1] <= fs[i].agent_index_interval[1]
            /\ fs[i].agent_index_interval[2] <= fs[Len(fs)].agent_index_interval[2]
            /\ fs[1].traffic_light_faces_index_interval[1]
                  <= fs[i].traffic_light_faces_index_interval[1]
            /\ fs[i].traffic_light_faces_index_interval[2]
                  <= fs[Len(fs)].traffic_light_faces_index_interval[2]

\* frame j of the extracted store refers to the records frame j of scene k of
\* the source refers to
SameRecords(copy, s, k, j) ==
    LET f == SceneFrames(s, k)[j + 1]
        g == copy.frames[j + 1]
    IN  /\ g.timestamp = f.timestamp
        /\ AgentsOf(copy, g) = AgentsOf(s, f)
        /\ FacesOf(copy, g) = FacesOf(s, f)

\* a completed extraction of a scene that exists and has frames
ExtractionOf(c) ==
    /\ c.op = "get_scene_dataset"
    /\ 0 <= c.args[1] /\ c.args[1] < Len(c.self.scenes)
    /\ Len(SceneFrames(c.self, c.args[1])) > 0

ReaderOps == {"len", "getitem", "get_frame", "get_scene_indices", "get_frame_indices"}

-----------------------------------------------------------------------------
(* C1: a flat index i with 0 <= i < len resolves to the first scene k whose  *)
(* cumulative size is above i and to the frame i - cumulative[k-1] of it (i  *)
(* for k = 0): an index on a scene boundary goes to the first frame of the   *)
(* next scene that has frames, the frame is one of scene k's, and the frame  *)
(* looked up is frame i of the store.                                        *)
ResolvesToOwningScene ==
    \A w \in procs :
        LET c == last[w]
            n == dataset_len(c.self)
            cum == cumulative_sizes(c.self)
        IN  (c.op = "getitem" /\ 0 <= c.args[1] /\ c.args[1] < n) =>
            /\ Len(c.resolved) = 2
            /\ LET i == c.args[1]
                   k == c.resolved[1]
                   off == c.resolved[2]
               IN  /\ 0 <= k /\ k < Len(cum)
                   /\ cum[k + 1] > i
                   /\ \A m \in 0..(k - 1) : cum[m + 1] <= i
                   /\ off = i - StartOf(cum, k)
                   /\ 0 <= off /\ off < Len(SceneFrames(c.self, k))
                   /\ StartOf(cum, k) + off = i
                   /\ c.status = IF CfgGet(c.self.cfg, "use_frenet", TRUE)
                                 THEN "AttributeError" ELSE "ok"
                   /\ c.status = "ok" =>
                         c.value[1].timestamp = c.self.frames[i + 1].timestamp

\* an index on the boundary before an empty scene went to the scene after it
ResolvedPastEmptyScene ==
    \E w \in procs :
        LET c == last[w]
            cum == cumulative_sizes(c.self)
        IN  /\ c.op = "getitem" /\ c.status = "ok" /\ c.args[1] > 0
            /\ c.resolved = <<2, 0>>
            /\ cum[1] = c.args[1] /\ cum[2] = c.args[1]

(* C2: a negative index -n with 1 <= n <= len gives what the index len - n   *)
(* gives; with n > len the call raises ValueError and looks no frame up.     *)
NegativeIndexCountsFromEnd ==
    \A w \in procs :
        LET c == last[w]
            n == dataset_len(c.self)
        IN  (c.op = "getitem" /\ c.args[1] < 0) =>
            IF (0 - c.args[1]) <= n
            THEN LET same == getitem(c.self, n + c.args[1])
                 IN  /\ c.resolved = same.resolved
                     /\ c.status = same.status
                     /\ c.value = same.value
                     /\ c.resolved =
                           resolve(cumulative_sizes(c.self), n + c.args[1])
            ELSE /\ c.status = "ValueError"
                 /\ c.resolved = <<>>
                 /\ c.value = <<>>

\* the index -len of a store of several frames gave the first frame
MinusLenGaveFirstFrame ==
    \E w \in procs :
        LET c == last[w]
        IN  /\ c.op = "getitem" /\ c.status = "ok"
            /\ dataset_len(c.self) >= 2
            /\ c.args[1] = 0 - dataset_len(c.self)
            /\ c.value[1].timestamp = c.self.frames[1].timestamp

(* C3: a flat index i >= len raises and returns no sample: it resolves to no *)
(* scene of the store.                                                       *)
IndexPastEndRaises ==
    \A w \in procs :
        LET c == last[w]
        IN  (c.op = "getitem" /\ c.args[1] >= dataset_len(c.self)) =>
            /\ c.status = "IndexError"
            /\ c.value = <<>>
            /\ c.resolved[1] = Len(c.self.scenes)

\* the index len of a store of two scenes or more raised
IndexLenRaised ==
    \E w \in procs :
        LET c == last[w]
        IN  /\ c.op = "getitem" /\ c.status = "IndexError"
            /\ Len(c.self.scenes) >= 2 /\ dataset_len(c.self) >= 2
            /\ c.args[1] = dataset_len(c.self)

(* C4: get_scene_indices(k) with 0 <= k < scene count returns the ascending  *)
(* flat indices from cumulative[k-1] (0 for k = 0) up to cumulative[k], the  *)
(* latter excluded, each of which __getitem__ resolves to scene k; with      *)
(* k >= scene count it fails its assertion and returns nothing.              *)
SceneIndicesAreTheScene ==
    \A w \in procs :
        LET c == last[w]
            cum == cumulative_sizes(c.self)
            k == c.args[1]
        IN  (c.op = "get_scene_indices" /\ k >= 0) =>
            IF k >= Len(c.self.scenes)
            THEN c.status = "AssertionError" /\ c.value = <<>>
            ELSE /\ c.status = "ok"
                 /\ c.value[1] = [t \in 1..(cum[k + 1] - StartOf(cum, k)) |->
                                     StartOf(cum, k) + t - 1]
                 /\ \A t \in 1..Len(c.value[1]) :
                       getitem(c.self, c.value[1][t]).resolved[1] = k

\* the indices of a later scene of two frames or more were returned
LaterSceneIndicesReturned ==
    \E w \in procs :
        LET c == last[w]
        IN  /\ c.op = "get_scene_indices" /\ c.status = "ok"
            /\ c.args[1] >= 1
            /\ Len(c.value[1]) >= 2

-----------------------------------------------------------------------------
(* C5: for a scene k whose intervals are contiguous, the extracted dataset   *)
(* gives at (scene 0, frame j) what the source gives at (scene k, frame j):  *)
(* the same frame with the same timestamp, agents and traffic light faces,   *)
(* and the same get_frame result, whatever the track id.                     *)
CopyGivesTheSameFrames ==
    \A w \in procs :
        LET c == last[w]
        IN  (ExtractionOf(c) /\ c.status = "ok" /\ Contiguous(c.self, c.args[1])) =>
            \A j \in 0..(Len(SceneFrames(c.self, c.args[1])) - 1) :
                /\ SameRecords(c.value[1], c.self, c.args[1], j)
                /\ \A t \in {<<>>, <<1>>} :
                      get_frame(c.value[1], 0, j, t)
                         = get_frame(c.self, c.args[1], j, t)

\* the second scene was extracted: two contiguous frames with agents, the
\* first of them not at the start of the agents
SecondSceneExtracted ==
    \E w \in procs :
        LET c == last[w]
        IN  /\ ExtractionOf(c) /\ c.status = "ok" /\ c.args[1] = 1
            /\ Contiguous(c.self, 1)
            /\ Len(SceneFrames(c.self, 1)) = 2
            /\ c.self.frames[2].agent_index_interval[1] > 0
            /\ Len(AgentsOf(c.self, c.self.frames[2])) > 0
            /\ Len(AgentsOf(c.self, c.self.frames[3])) > 0

(* C9: the store extracted from a scene k of n > 0 frames with contiguous    *)
(* intervals has one scene with the frame interval (0, n), n frames, the     *)
(* cumulative index (n), its first frame's intervals starting at 0, its last *)
(* frame's ending at the number of agents and of traffic light faces copied, *)
(* and every interval within them; extracting scene 0 of a store of that     *)
(* shape gives an equal store.                                               *)
CopyIsZeroBased ==
    \A w \in procs :
        LET c == last[w]
        IN  (ExtractionOf(c) /\ Contiguous(c.self, c.args[1])) =>
            /\ c.status = "ok"
            /\ LET x == c.value[1]
                   n == Len(SceneFrames(c.self, c.args[1]))
               IN  /\ x.scenes = <<Scene(0, n)>>
                   /\ dataset_len(x) = n
                   /\ cumulative_sizes(x) = <<n>>
                   /\ x.frames[1].agent_index_interval[1] = 0
                   /\ x.frames[1].traffic_light_faces_index_interval[1] = 0
                   /\ x.frames[n].agent_index_interval[2] = Len(x.agents)
                   /\ x.frames[n].traffic_light_faces_index_interval[2]
                         = Len(x.tl_faces)
                   /\ \A i \in 1..n :
                         /\ 0 <= x.frames[i].agent_index_interval[1]
                         /\ x.frames[i].agent_index_interval[1]
                               <= x.frames[i].agent_index_interval[2]
                         /\ x.frames[i].agent_index_interval[2] <= Len(x.agents)
                         /\ 0 <= x.frames[i].traffic_light_faces_index_interval[1]
                         /\ x.frames[i].traffic_light_faces_index_interval[1]
                               <= x.frames[i].traffic_light_faces_index_interval[2]
                         /\ x.frames[i].traffic_light_faces_index_interval[2]
                               <= Len(x.tl_faces)
                   /\ (/\ c.self.scenes = <<Scene(0, n)>>
                       /\ c.self.frames[1].agent_index_interval[1] = 0
                       /\ c.self.frames[1].traffic_light_faces_index_interval[1] = 0
                       /\ c.self.frames[n].agent_index_interval[2] = Len(c.self.agents)
                       /\ c.self.frames[n].traffic_light_faces_index_interval[2]
                             = Len(c.self.tl_faces))
                      => x = c.self

\* an extracted store of two frames, taken from the second scene, was
\* extracted again
ExtractedAgain ==
    \E w \in procs :
        LET c == last[w]
        IN  /\ ExtractionOf(c) /\ c.status = "ok"
            /\ Contiguous(c.self, 0)
            /\ c.self.scenes = <<Scene(0, 2)>>
            /\ c.self.frames[1].timestamp = 2
            /\ Len(c.self.agents) >= 2
            /\ c.value[1] = c.self

(* C10, as the spec has it: the extraction of a scene with a gap between the *)
(* intervals of two successive frames returns without an error, and a frame  *)
(* of the extracted store refers to other records than in the source.        *)
GapCorruptsTheCopy ==
    \A w \in procs :
        LET c == last[w]
        IN  (ExtractionOf(c) /\ HasGap(c.self, c.args[1])) =>
            /\ c.status = "ok"
            /\ \E j \in 0..(Len(SceneFrames(c.self, c.args[1])) - 1) :
                  ~SameRecords(c.value[1], c.self, c.args[1], j)

(* C10, amended: the extraction of a scene that has frames returns without   *)
(* an error whatever the intervals of its frames; when every frame's         *)
(* intervals lie between the start of the first frame's and the end of the   *)
(* last frame's, as they do with gaps between intervals in ascending order,  *)
(* every frame of the extracted store refers to the records it refers to in  *)
(* the source: the extracted store can be wrong only when an interval lies   *)
(* outside of them.                                                          *)
CopyRightWithinFirstAndLast ==
    \A w \in procs :
        LET c == last[w]
        IN  ExtractionOf(c) =>
            /\ c.status = "ok"
            /\ Within(c.self, c.args[1]) =>
                  \A j \in 0..(Len(SceneFrames(c.self, c.args[1])) - 1) :
                      SameRecords(c.value[1], c.self, c.args[1], j)

\* a scene with a gap between two frames that have agents was extracted, and
\* its frames refer to the records they referred to
GapExtractedRight ==
    \E w \in procs :
        LET c == last[w]
        IN  /\ ExtractionOf(c) /\ c.status = "ok" /\ c.args[1] = 1
            /\ HasGap(c.self, 1)
            /\ Within(c.self, 1)
            /\ \A j \in 0..1 :
                  /\ Len(AgentsOf(c.self, SceneFrames(c.self, 1)[j + 1])) > 0
                  /\ SameRecords(c.value[1], c.self, 1, j)

-----------------------------------------------------------------------------
\* the datasets there are: the root one and the extracted ones the workers hold
Datasets == {root} \cup {last[w].held[1] : w \in {v \in procs : last[v].held # <<>>}}

\* the buffers the call in progress of worker w has copied into
LocalBufs(w) ==
    {loc[w].scenes.buf, loc[w].frames.buf, loc[w].agents.buf, loc[w].tl_faces.buf} \ {0}

(* C6: whatever the interleaving of the workers' extractions and reads, the  *)
(* source store and its cumulative index stay as constructed; the arrays of  *)
(* the source, of the extracted datasets and of the extractions in progress  *)
(* are on buffers of their own; and overwriting an array of one dataset,     *)
(* source or extracted, leaves every other dataset as it is.                 *)
CopiesArePrivate ==
    /\ Load(heap, root) = WorkersStore
    /\ cumulative_sizes(Load(heap, root)) = cumulative_sizes(WorkersStore)
    /\ \A d \in Datasets : \A e \in Datasets \ {d} : BufsOf(d) \cap BufsOf(e) = {}
    /\ \A w \in procs :
          /\ \A d \in Datasets : LocalBufs(w) \cap BufsOf(d) = {}
          /\ \A v \in procs \ {w} : LocalBufs(w) \cap LocalBufs(v) = {}
    /\ \A d \in Datasets : \A e \in Datasets \ {d} :
          \A array \in {"frames", "agents", "tl_faces"} : \A val \in WrittenValues :
              Load(overwrite(heap, d, array, val), e) = Load(heap, e)

\* a worker holds an extracted store whose frames it has overwritten, while
\* the other worker's extraction from the source has rebased its copy
WrittenCopyBesideExtraction ==
    \E w \in procs : \E v \in procs \ {w} :
        /\ last[w].held # <<>>
        /\ writes > 0
        /\ Load(heap, last[w].held[1]).frames[1].timestamp \in WrittenValues
        /\ pc[v] = "L190"
        /\ loc[v].self = root
        /\ loc[v].scene_index = 1

(* C8: a call of __len__, __getitem__, get_frame, get_scene_indices or       *)
(* get_frame_indices, whether it returns or raises and whatever the other    *)
(* worker is doing, leaves the heap, the root dataset and every dataset's    *)
(* configuration, scenes, frames, agents and traffic light faces as they     *)
(* were, and a call on the root dataset sees the store and the cumulative    *)
(* index that construction left.                                             *)
ReadersLeaveTheStore ==
    [][\A w \in procs :
          (last[w].op = "none" /\ last'[w].op \in ReaderOps) =>
              /\ heap' = heap
              /\ root' = root
              /\ last'[w].held = last[w].held
              /\ \A d \in Datasets : Load(heap', d) = Load(heap, d)
              /\ last'[w].held = <<>> =>
                    /\ last'[w].self = WorkersStore
                    /\ cumulative_sizes(last'[w].self)
                          = cumulative_sizes(WorkersStore)]_vars

\* a get_frame on the root dataset has returned while the other worker's
\* extraction has rebased its copy
ReadBesideExtraction ==
    \E w \in procs : \E v \in procs \ {w} :
        /\ last[w].op = "get_frame" /\ last[w].status = "ok"
        /\ last[w].args[1] = 1
        /\ last[w].held = <<>>
        /\ pc[v] = "L182"
        /\ loc[v].self = root

(* C7: with the Frenet conversion on, get_frame of a frame of a scene        *)
(* returns a sample whose target positions are, for every later frame t,     *)
(* (x_t - x0, y_t), x0 the current x, and whose availabilities are those of  *)
(* the sample generated.                                                     *)
FrenetTargetsRelativeToNow ==
    \A w \in procs :
        LET c == last[w]
        IN  (/\ c.op = "get_frame"
             /\ CfgGet(c.self.cfg, "use_frenet", TRUE)
             /\ c.args[1] = 0
             /\ 0 <= c.args[2] /\ c.args[2] < Len(c.self.frames)) =>
            /\ c.status = "ok"
            /\ LET frames == c.self.frames
                   x0 == frames[c.args[2] + 1].ego_translation[1]
                   targets == Len(frames) - c.args[2] - 1
               IN  /\ c.value[1].target_positions =
                          [t \in 1..targets |->
                              <<frames[c.args[2] + 1 + t].ego_translation[1] - x0,
                                frames[c.args[2] + 1 + t].ego_translation[2]>>]
                   /\ c.value[1].target_availabilities = [t \in 1..targets |-> 1]

\* get_frame of a frame that has a later frame was called with the Frenet
\* conversion on by default, and raised
FrenetRaised ==
    \E w \in procs :
        LET c == last[w]
        IN  /\ c.op = "get_frame"
            /\ c.self.cfg = <<>>
            /\ c.args[1] = 0 /\ c.args[2] = 0
            /\ Len(c.self.frames) > 1
            /\ c.status = "AttributeError"

====
